---- MODULE Spec2Model ----
(***************************************************************************)
(* Client IP middleware (package clientip): the handler built by           *)
(* buildHandler from a list of options, and ServeHTTP, which runs the      *)
(* detector list backwards, then rejects or calls the callback and the     *)
(* wrapped handler.                                                        *)
(*                                                                         *)
(* Text (RemoteAddr, header values) is a sequence of one-character         *)
(* strings.  An address text is one letter: "a" and "b" are ordinary       *)
(* addresses, "z" is the unspecified address (0.0.0.0 / ::); every other   *)
(* text does not parse.  nil is net.IP(nil).                               *)
(***************************************************************************)
EXTENDS Integers, Sequences, FiniteSets, TLC

VARIABLES h, applied, phase, req, sent, ip, invoked, calls

vars == <<h, applied, phase, req, sent, ip, invoked, calls>>

\* Length of the detector list (default detector included) in Spec.
MaxDetectors == 3
\* X-Forwarded-For tokens of one request in Spec.
MaxPipeTokens == 1
\* X-Forwarded-For tokens of one request in SpecXFF.
MaxChain == 3

nil == "nil"
Addr == {"a", "b", "z"}
IPs == Addr \cup {nil}
IsUnspecified(x) == x = "z"

headerForwardedFor == "X-Forwarded-For"
headerRealIp == "X-Real-Ip"

Max(S) == CHOOSE x \in S : \A y \in S : y <= x

(***************************************************************************)
(* Library text functions, as the handler calls them.                      *)
(***************************************************************************)
Contains(s, c) == \E i \in 1..Len(s) : s[i] = c

RECURSIVE TrimLeft(_)
TrimLeft(s) == IF s # <<>> /\ Head(s) = " " THEN TrimLeft(Tail(s)) ELSE s

RECURSIVE TrimRight(_)
TrimRight(s) ==
    IF s # <<>> /\ s[Len(s)] = " " THEN TrimRight(SubSeq(s, 1, Len(s) - 1)) ELSE s

TrimSpace(s) == TrimRight(TrimLeft(s))

\* strings.Split(s, ",")
RECURSIVE Split(_)
Split(s) ==
    IF ~Contains(s, ",") THEN <<s>>
    ELSE LET i == CHOOSE k \in 1..Len(s) :
                      s[k] = "," /\ \A j \in 1..(k - 1) : s[j] # ","
         IN  <<SubSeq(s, 1, i - 1)>> \o Split(SubSeq(s, i + 1, Len(s)))

\* net.ParseIP: an address, or nil for a text that is no address
ParseIP(s) == IF Len(s) = 1 /\ s[1] \in Addr THEN s[1] ELSE nil

\* net.SplitHostPort (no brackets in the alphabet): the last colon separates
\* host and port; no colon, or a colon in the host, is an error
SplitHostPort(s) ==
    IF ~Contains(s, ":") THEN [err |-> TRUE, host |-> <<>>]
    ELSE LET i == Max({k \in 1..Len(s) : s[k] = ":"})
             host == SubSeq(s, 1, i - 1)
         IN  IF Contains(host, ":") THEN [err |-> TRUE, host |-> <<>>]
             ELSE [err |-> FALSE, host |-> host]

\* r.Header.Values(name) and r.Header.Get(name)
HeaderValues(r, name) == r.Header[name]
HeaderGet(r, name) == IF r.Header[name] = <<>> THEN <<>> ELSE r.Header[name][1]

(***************************************************************************)
(* Detectors.  A trust predicate is the set of values it answers true for  *)
(* (nil included or not).                                                  *)
(***************************************************************************)
trustedProxy(T, x) == x \in T

\* the default detector of buildHandler
DefaultDetector(r) ==
    LET hp == SplitHostPort(TrimSpace(r.RemoteAddr))
    IN  IF ~hp.err THEN ParseIP(hp.host) ELSE nil

\* WithXFFDetector: the peer gate; TRUE when the detector returns nil at once
PeerGateNoMut(T, r) ==
    FALSE

PeerGate(T, r) ==
    LET hp == SplitHostPort(TrimSpace(r.RemoteAddr))
    IN  ~hp.err /\ ~trustedProxy(T, ParseIP(hp.host))

\* WithXFFDetector: the chain of all X-Forwarded-For headers
RECURSIVE ParseAll(_)
ParseAll(toks) ==
    IF toks = <<>> THEN <<>>
    ELSE <<ParseIP(TrimSpace(Head(toks)))>> \o ParseAll(Tail(toks))

RECURSIVE ChainOf(_)
ChainOf(values) ==
    IF values = <<>> THEN <<>>
    ELSE LET forwarded == Head(values)
         IN  (IF Contains(forwarded, ",")
              THEN ParseAll(Split(forwarded))
              ELSE <<ParseIP(TrimSpace(forwarded))>>) \o ChainOf(Tail(values))

XFFChain(r) == ChainOf(HeaderValues(r, headerForwardedFor))

\* WithXFFDetector: the walk back; the position of the first entry that is
\* not trusted, from i down to 1, or 0
WalkBackForwardMut(T, chain, i) ==
    LET bad == {k \in 1..i : ~trustedProxy(T, chain[k])}
    IN  IF bad = {} THEN 0 ELSE CHOOSE k \in bad : \A j \in bad : k <= j

WalkBackSkipNilMut(T, chain, i) ==
    LET bad == {k \in 1..i : chain[k] # nil /\ ~trustedProxy(T, chain[k])}
    IN  IF bad = {} THEN 0 ELSE Max(bad)

RECURSIVE WalkBack(_, _, _)
WalkBack(T, chain, i) ==
    IF i < 1 THEN 0
    ELSE IF ~trustedProxy(T, chain[i]) THEN i
    ELSE WalkBack(T, chain, i - 1)

\* WithXFFDetector: all of the chain is trusted
AllTrustedLastMut(chain) == IF Len(chain) > 0 THEN chain[Len(chain)] ELSE nil

AllTrusted(chain) == IF Len(chain) > 0 THEN chain[1] ELSE nil

XFFDetector(T, r) ==
    IF PeerGate(T, r) THEN nil
    ELSE LET chain == XFFChain(r)
             i == WalkBack(T, chain, Len(chain))
         IN  IF i > 0 THEN chain[i] ELSE AllTrusted(chain)

TrustedHeaderDetector(name, r) ==
    LET addr == TrimSpace(HeaderGet(r, name))
    IN  IF addr # <<>> THEN ParseIP(addr) ELSE nil

\* The detectors of a handler: the closure's kind and what it captured.
PeerD == [kind |-> "peer", T |-> {}, name |-> "", ret |-> nil]
XFFD(T) == [kind |-> "xff", T |-> T, name |-> "", ret |-> nil]
HeaderD(name) == [kind |-> "header", T |-> {}, name |-> name, ret |-> nil]
\* a custom detector: here one that returns the same value for every request
CustomD(v) == [kind |-> "custom", T |-> {}, name |-> "", ret |-> v]

Detect(d, r) ==
    CASE d.kind = "peer" -> DefaultDetector(r)
      [] d.kind = "xff" -> XFFDetector(d.T, r)
      [] d.kind = "header" -> TrustedHeaderDetector(d.name, r)
      [] d.kind = "custom" -> d.ret

(***************************************************************************)
(* The handler and its options.                                            *)
(***************************************************************************)
NewStruct == [detectors |-> <<PeerD>>, callback |-> FALSE, reject |-> FALSE]

WithCallbackOpt(hh) == [hh EXCEPT !.callback = TRUE]
WithDetectorOpt(hh, d) == [hh EXCEPT !.detectors = Append(@, d)]
WithXFFDetectorOpt(hh, T) == WithDetectorOpt(hh, XFFD(T))
WithTrustedHeaderDetectorOpt(hh, name) == WithDetectorOpt(hh, HeaderD(name))
WithRejectOpt(hh) == [hh EXCEPT !.reject = TRUE]

(***************************************************************************)
(* ServeHTTP.  invoked is the sequence of detector calls (position in the   *)
(* list, result); calls is the sequence of calls of the rejection handler, *)
(* the callback and the wrapped handler, each with its arguments.          *)
(***************************************************************************)
Ev(op, x, r) == [op |-> op, ip |-> x, r |-> r]

AcceptedNilOnlyMut(detected) == detected # nil

Accepted(detected) == detected # nil /\ ~IsUnspecified(detected)

\* the loop over h.detectors from position i down
RunDetectorsForwardMut(ds, r, i) ==
    LET hits == {k \in 1..i : Accepted(Detect(ds[k], r))}
        stop == IF hits = {} THEN i ELSE CHOOSE k \in hits : \A j \in hits : k <= j
    IN  [ip |-> IF hits = {} THEN nil ELSE Detect(ds[stop], r),
         invoked |-> [k \in 1..stop |-> <<k, Detect(ds[k], r)>>]]

RECURSIVE RunDetectors(_, _, _)
RunDetectors(ds, r, i) ==
    IF i < 1 THEN [ip |-> nil, invoked |-> <<>>]
    ELSE LET detected == Detect(ds[i], r)
             ev == <<i, detected>>
         IN  IF Accepted(detected) THEN [ip |-> detected, invoked |-> <<ev>>]
             ELSE LET rest == RunDetectors(ds, r, i - 1)
                  IN  [ip |-> rest.ip, invoked |-> <<ev>> \o rest.invoked]

\* the callback of the usage example: the request with the address in its context
CallbackResult(r, x) == [r EXCEPT !.ctx = x]

\* the calls after detection: reject, or callback and next
AfterDetectNoRejectMut(hh, r, x) ==
    (IF hh.callback THEN <<Ev("callback", x, r)>> ELSE <<>>)
        \o <<Ev("next", nil, IF hh.callback THEN CallbackResult(r, x) ELSE r)>>

AfterDetectOrigReqMut(hh, r, x) ==
    IF hh.reject /\ x = nil THEN <<Ev("reject", nil, r)>>
    ELSE (IF hh.callback THEN <<Ev("callback", x, r)>> ELSE <<>>)
             \o <<Ev("next", nil, r)>>

AfterDetect(hh, r, x) ==
    IF hh.reject /\ x = nil THEN <<Ev("reject", nil, r)>>
    ELSE LET r2 == IF hh.callback THEN CallbackResult(r, x) ELSE r
         IN  (IF hh.callback THEN <<Ev("callback", x, r)>> ELSE <<>>)
                 \o <<Ev("next", nil, r2)>>

(***************************************************************************)
(* Requests: a peer address text, the X-Forwarded-For header values that   *)
(* the proxies on the way wrote, an X-Real-Ip header.                      *)
(***************************************************************************)
Headers(xff, real) == (headerForwardedFor :> xff) @@ (headerRealIp :> real)

NewRequest(remote, xff, real) ==
    [RemoteAddr |-> remote, Header |-> Headers(xff, real), ctx |-> "none"]

NoReq == NewRequest(<<>>, <<>>, <<>>)

RemoteAddrs ==
    { <<>>, <<"a">>, <<"a", ":", "8">>, <<" ", "b", ":", "8">>,
      <<"z", ":", "8">>, <<"-", ":", "8">> }

PipeRemoteAddrs == { <<>>, <<"a", ":", "8">>, <<"z", ":", "8">> }

RealValues == { <<>>, << <<" ", "b">> >>, << <<"z">> >> }

\* the tokens of a header value: addresses, and the empty token of "a," or ""
Tokens == { <<"a">>, <<"b">>, <<"z">>, <<>> }

\* the address a token denotes
TokenIP(t) == IF t \in {<<"a">>, <<"b">>, <<"z">>} THEN t[1] ELSE nil

\* "t1, t2, t3": one header value written from its tokens
RECURSIVE JoinTokens(_)
JoinTokens(toks) ==
    IF Len(toks) = 1 THEN toks[1]
    ELSE toks[1] \o <<",", " ">> \o JoinTokens(Tail(toks))

\* the lists of header occurrences (each a list of one token or more) with at
\* most n tokens in all
RECURSIVE HeaderLists(_)
HeaderLists(n) ==
    {<<>>} \cup
    UNION { { <<first>> \o rest : first \in [1..k -> Tokens],
                                  rest \in HeaderLists(n - k) } : k \in 1..n }

PipeHeaderLists == HeaderLists(MaxPipeTokens)
XFFHeaderLists == HeaderLists(MaxChain)

XFFValues(xs) == [k \in 1..Len(xs) |-> JoinTokens(xs[k])]

TrustPredicates == SUBSET IPs
PipeTrustPredicates == { {"a"} }
CustomResults == { "b", "z", nil }

(***************************************************************************)
(* Actions.                                                                *)
(***************************************************************************)
\* applied is the list of the detectors given to the options, in the order
\* in which the options were applied.
Init ==
    /\ h = NewStruct
    /\ applied = <<>>
    /\ phase = "build"
    /\ req = NoReq
    /\ sent = <<>>
    /\ ip = nil
    /\ invoked = <<>>
    /\ calls = <<>>

WithCallback ==
    /\ phase = "build"
    /\ h' = WithCallbackOpt(h)
    /\ UNCHANGED <<applied, phase, req, sent, ip, invoked, calls>>

WithReject ==
    /\ phase = "build"
    /\ h' = WithRejectOpt(h)
    /\ UNCHANGED <<applied, phase, req, sent, ip, invoked, calls>>

WithDetector(v) ==
    /\ phase = "build"
    /\ Len(h.detectors) < MaxDetectors
    /\ h' = WithDetectorOpt(h, CustomD(v))
    /\ applied' = applied \o <<CustomD(v)>>
    /\ UNCHANGED <<phase, req, sent, ip, invoked, calls>>

WithXFFDetector(T) ==
    /\ phase = "build"
    /\ Len(h.detectors) < MaxDetectors
    /\ h' = WithXFFDetectorOpt(h, T)
    /\ applied' = applied \o <<XFFD(T)>>
    /\ UNCHANGED <<phase, req, sent, ip, invoked, calls>>

WithTrustedHeaderDetector(name) ==
    /\ phase = "build"
    /\ Len(h.detectors) < MaxDetectors
    /\ h' = WithTrustedHeaderDetectorOpt(h, name)
    /\ applied' = applied \o <<HeaderD(name)>>
    /\ UNCHANGED <<phase, req, sent, ip, invoked, calls>>

\* buildHandler returns the handler; it is not changed afterwards
NewHandler ==
    /\ phase = "build"
    /\ phase' = "ready"
    /\ UNCHANGED <<h, applied, req, sent, ip, invoked, calls>>

\* ServeHTTP on a request drawn from the given peer address texts, lists of
\* X-Forwarded-For occurrences and X-Real-Ip values
ServeHTTP(addrs, lists, reals) ==
    /\ phase = "ready"
    /\ \E remote \in addrs, xs \in lists, real \in reals :
           LET r == NewRequest(remote, XFFValues(xs), real)
               det == RunDetectors(h.detectors, r, Len(h.detectors))
           IN  /\ req' = r
               /\ sent' = xs
               /\ ip' = det.ip
               /\ invoked' = det.invoked
               /\ calls' = AfterDetect(h, r, det.ip)
    /\ phase' = "served"
    /\ UNCHANGED <<h, applied>>

\* ServeHTTP has returned; the handler waits for the next request
Return ==
    /\ phase = "served"
    /\ phase' = "ready"
    /\ req' = NoReq
    /\ sent' = <<>>
    /\ ip' = nil
    /\ invoked' = <<>>
    /\ calls' = <<>>
    /\ UNCHANGED <<h, applied>>

Next ==
    \/ WithCallback
    \/ WithReject
    \/ \E v \in CustomResults : WithDetector(v)
    \/ \E T \in PipeTrustPredicates : WithXFFDetector(T)
    \/ WithTrustedHeaderDetector(headerRealIp)
    \/ NewHandler
    \/ ServeHTTP(PipeRemoteAddrs, PipeHeaderLists, RealValues)
    \/ Return

Spec == Init /\ [][Next]_vars

\* The handler of the package's test: the XFF detector with a trust predicate
\* and a callback, after the default detector.
InitXFF ==
    /\ \E T \in TrustPredicates :
           /\ h = WithCallbackOpt(WithXFFDetectorOpt(NewStruct, T))
           /\ applied = <<XFFD(T)>>
    /\ phase = "ready"
    /\ req = NoReq
    /\ sent = <<>>
    /\ ip = nil
    /\ invoked = <<>>
    /\ calls = <<>>

NextXFF ==
    \/ ServeHTTP(RemoteAddrs, XFFHeaderLists, {<<>>})
    \/ Return

SpecXFF == InitXFF /\ [][NextXFF]_vars

(***************************************************************************)
(* Properties.                                                             *)
(***************************************************************************)
Served == phase = "served"

\* what each detector of the list yields for the request, and the positions
\* that yield a present address other than the unspecified one
Yield(k) == Detect(h.detectors[k], req)
Hits == {k \in 1..Len(h.detectors) : Yield(k) # nil /\ Yield(k) # "z"}

\* the detector calls from position n down to position m
CallsDownTo(n, m) == [j \in 1..(n - m + 1) |-> <<n + 1 - j, Yield(n + 1 - j)>>]

\* C1: with a rejection handler configured, a request for which no detector
\* yields a present, non-unspecified address gets exactly one call, the
\* rejection handler with the original request: neither the callback nor the
\* wrapped handler is called, whatever the detector list and the callback.
C1_RejectionInvariant ==
    (Served /\ h.reject /\ Hits = {}) =>
        /\ ip = nil
        /\ calls = << [op |-> "reject", ip |-> nil, r |-> req] >>

C1_Witness ==
    /\ Served /\ h.reject /\ h.callback /\ Hits = {}
    /\ Len(h.detectors) = 3
    /\ \E k \in 1..3 : Yield(k) = "z"
    /\ calls # <<>> /\ calls[1].op = "reject"

\* C2: the default peer detector is at the first position, followed by the
\* detectors of the options in the order the options were applied; the detected
\* address is the yield of the last-added detector among those that yield a
\* present, non-unspecified address; the detectors are called from the last
\* position down to that one and no further, an absent or unspecified yield
\* does not stop the calls, and the detected address is absent exactly when no
\* detector yields a present, non-unspecified address.
C2_DetectorPrecedence ==
    Served =>
        LET n == Len(h.detectors)
        IN  /\ h.detectors = <<PeerD>> \o applied
            /\ (ip = nil) <=> (Hits = {})
            /\ IF Hits = {}
               THEN invoked = CallsDownTo(n, 1)
               ELSE /\ ip = Yield(Max(Hits))
                    /\ invoked = CallsDownTo(n, Max(Hits))

C2_Witness ==
    /\ Served
    /\ Len(h.detectors) = 3
    /\ Hits = {1, 2}
    /\ Yield(3) = "z"
    /\ Yield(1) # Yield(2)
    /\ ip = Yield(2)
    /\ Len(invoked) = 2

\* C8 as stated: no built-in detector (default, trusted header, XFF) yields
\* the unspecified address, and the callback never gets it.
C8_Original ==
    Served =>
        /\ \A j \in 1..Len(invoked) :
               h.detectors[invoked[j][1]].kind \in {"peer", "header", "xff"}
                   => invoked[j][2] # "z"
        /\ \A j \in 1..Len(calls) : calls[j].op = "callback" => calls[j].ip # "z"

\* C8: the address the pipeline detects and hands to the callback is never the
\* unspecified address (a detector may yield it; the loop passes over it).
C8_NeverUnspecified ==
    Served =>
        /\ ip # "z"
        /\ \A j \in 1..Len(calls) : calls[j].op = "callback" => calls[j].ip # "z"

C8_Witness ==
    /\ Served /\ h.callback
    /\ \E j \in 1..Len(invoked) :
           /\ invoked[j][2] = "z"
           /\ h.detectors[invoked[j][1]].kind \in {"peer", "header", "xff"}
    /\ \E j \in 1..Len(calls) : calls[j].op = "callback" /\ calls[j].ip \in {"a", "b"}

\* C9: a request that is not rejected gets the callback, when one is
\* configured, exactly once, with the detected address (absent when nothing
\* was detected), and then the wrapped handler exactly once, with the request
\* the callback returned (the original request without a callback); every
\* request gets exactly one of the rejection handler and the wrapped handler.
C9_CallbackThenHandler ==
    Served =>
        /\ ~(h.reject /\ Hits = {}) =>
               calls = (IF h.callback
                        THEN << [op |-> "callback", ip |-> ip, r |-> req] >>
                        ELSE << >>)
                       \o << [op |-> "next", ip |-> nil,
                              r |-> IF h.callback THEN [req EXCEPT !.ctx = ip]
                                    ELSE req] >>
        /\ Cardinality({j \in 1..Len(calls) : calls[j].op \in {"reject", "next"}}) = 1

C9_Witness ==
    /\ Served /\ h.callback /\ h.reject
    /\ ip \in {"a", "b"}
    /\ Len(calls) = 2
    /\ calls[1].op = "callback" /\ calls[2].op = "next"
    /\ calls[2].r # req

(***************************************************************************)
(* Properties of the XFF detector, after the default detector.             *)
(***************************************************************************)
\* the trust predicate of the XFF detector at the second position
TrustOf == h.detectors[2].T

\* the peer: whether RemoteAddr split into host and port, and the address
PeerSplit == ~SplitHostPort(TrimSpace(req.RemoteAddr)).err
PeerIP == IF PeerSplit THEN ParseIP(SplitHostPort(TrimSpace(req.RemoteAddr)).host) ELSE nil
PeerTrusted == PeerSplit /\ PeerIP # nil /\ PeerIP \in TrustOf

\* what the default detector contributes to the pipeline for this peer
PeerDetected == IF PeerIP = "z" THEN nil ELSE PeerIP

\* the chain as the proxies wrote it: the tokens of every occurrence, in order
RECURSIVE Flatten(_)
Flatten(xs) == IF xs = <<>> THEN <<>> ELSE Head(xs) \o Flatten(Tail(xs))
SentChain == LET toks == Flatten(sent) IN [k \in 1..Len(toks) |-> TokenIP(toks[k])]
Untrusted == LET c == SentChain IN {k \in 1..Len(c) : c[k] \notin TrustOf}
Malformed == LET c == SentChain IN {k \in 1..Len(c) : c[k] = nil}

\* what the XFF detector returned for the request
XFFResult == invoked[1][2]

\* C3 as stated: a request whose peer address parses to an address that the
\* trust predicate rejects gets nothing from the XFF detector, whatever its
\* X-Forwarded-For headers, and the pipeline detects the peer address.
C3_Original ==
    (Served /\ PeerSplit /\ PeerIP # nil /\ PeerIP \notin TrustOf) =>
        /\ XFFResult = nil
        /\ ip = PeerIP

\* C3: a request whose peer address parses to an address that the trust
\* predicate rejects gets nothing from the XFF detector, whatever its
\* X-Forwarded-For headers, and the pipeline detects what the peer address
\* alone decides: the peer address, or nothing when the peer address is the
\* unspecified address.  Two such requests with the same peer address hence
\* get the same detected address.
C3_PeerTrustGate ==
    (Served /\ PeerSplit /\ PeerIP # nil /\ PeerIP \notin TrustOf) =>
        /\ XFFResult = nil
        /\ Len(invoked) = 2
        /\ ip = PeerDetected

C3_Witness ==
    /\ Served /\ PeerSplit /\ PeerIP = "b" /\ "b" \notin TrustOf
    /\ Len(sent) = 2
    /\ Untrusted # {} /\ SentChain[Max(Untrusted)] = "a"
    /\ ip = "b"

\* C4: the XFF detector returns a present address only for a request whose
\* peer address was parsed and satisfies the trust predicate.
C4_XFFOnlyFromTrustedPeer ==
    (Served /\ XFFResult # nil) => PeerTrusted

\* C5: for a trusted peer, the chain is the tokens of every X-Forwarded-For
\* occurrence in order, trimmed and parsed, and when some entry fails the
\* trust predicate the XFF detector returns the entry at the greatest position
\* that fails it.
C5_BackwardTrustWalk ==
    (Served /\ PeerTrusted /\ Untrusted # {}) =>
        /\ XFFChain(req) = SentChain
        /\ XFFResult = SentChain[Max(Untrusted)]

C5_Witness ==
    /\ Served /\ PeerTrusted
    /\ Len(sent) = 2 /\ Len(SentChain) = 3
    /\ Untrusted = {1, 2}
    /\ SentChain[1] = "a" /\ SentChain[2] = "b"
    /\ XFFResult = "b" /\ ip = "b"

\* C6 as stated: for a trusted peer and a chain that is not empty and all
\* trusted, the XFF detector returns the first entry and the pipeline detects
\* that address.
C6_Original ==
    (Served /\ PeerTrusted /\ SentChain # <<>> /\ Untrusted = {}) =>
        /\ XFFResult = SentChain[1]
        /\ ip = SentChain[1]

\* C6: for a trusted peer and a chain that is not empty and all trusted, the
\* XFF detector returns the first entry; the pipeline detects that address
\* when it is present and not the unspecified address, and otherwise what the
\* default detector yields.
C6_AllTrustedFallback ==
    (Served /\ PeerTrusted /\ SentChain # <<>> /\ Untrusted = {}) =>
        /\ XFFResult = SentChain[1]
        /\ ip = IF SentChain[1] \in {nil, "z"} THEN PeerDetected ELSE SentChain[1]

C6_Witness ==
    /\ Served /\ PeerTrusted /\ Untrusted = {}
    /\ Len(sent) = 2 /\ Len(SentChain) = 3
    /\ SentChain[1] = "b" /\ SentChain[3] = "a" /\ PeerIP = "a"
    /\ XFFResult = "b" /\ ip = "b"

\* the chain has a malformed token at m and every entry after m is trusted
BreaksAt(m) ==
    LET c == SentChain
    IN  /\ c[m] = nil
        /\ \A k \in (m + 1)..Len(c) : c[k] \in TrustOf

\* C7 as stated: for a trusted peer and a malformed token followed only by
\* trusted entries, the pipeline detects the entry after the malformed token,
\* or the peer address when the malformed token is the last entry.  (Read in
\* the claim's favour: the malformed token is one the trust predicate does not
\* trust, and nothing is asked where the address named is the unspecified
\* address, which the pipeline never detects.)
C7_Original ==
    (Served /\ PeerTrusted /\ nil \notin TrustOf) =>
        \A m \in 1..Len(SentChain) :
            BreaksAt(m) =>
                LET want == IF m = Len(SentChain) THEN PeerIP ELSE SentChain[m + 1]
                IN  want # "z" => ip = want

\* C7: for a trusted peer and a malformed token that the trust predicate does
\* not trust, followed only by trusted entries, the XFF detector returns
\* nothing, wherever the token stands in the chain, and the pipeline detects
\* what the default detector yields: the peer address, or nothing when the
\* peer address is the unspecified address.
C7_MalformedToken ==
    (Served /\ PeerTrusted /\ nil \notin TrustOf) =>
        \A m \in 1..Len(SentChain) :
            BreaksAt(m) => (XFFResult = nil /\ ip = PeerDetected)

C7_Witness ==
    /\ Served /\ PeerTrusted /\ nil \notin TrustOf
    /\ Len(SentChain) = 3
    /\ BreaksAt(2)
    /\ SentChain[3] = "b" /\ SentChain[1] = "b" /\ PeerIP = "a"
    /\ XFFResult = nil /\ ip = "a"

\* C10: for a trusted peer and any trust predicate, the XFF detector never
\* returns an entry that stands before an unparseable token of the chain: it
\* returns an entry at the position of the last unparseable token or after it.
C10_BrokenNeverSkipped ==
    (Served /\ PeerTrusted /\ Malformed # {}) =>
        XFFResult \in {SentChain[k] : k \in Max(Malformed)..Len(SentChain)}

====
